---------------------------- MODULE Spec2Model ----------------------------
(***************************************************************************)
(* Model of src/src/OCluDAL.py: the OCluDAL active-learning object.        *)
(*                                                                         *)
(* The labelled / unlabelled pools are the four parallel numpy arrays      *)
(* labelled_X_new, labelled_y_new, unlabelled_X_new, unlabelled_y_new.     *)
(* A feature vector is abstracted to one value of Feats (the standardised  *)
(* vector; StandardScaler is an injective affine map per column, so two    *)
(* rows have equal vectors after scaling iff they had equal vectors        *)
(* before).  Row indices handed to numpy are zero-based integers, as in    *)
(* the source; sequences are one-based, so position i of an array is       *)
(* element i + 1 of the sequence.                                          *)
(*                                                                         *)
(* The external collaborators are modelled by what the code can observe    *)
(* of them: a OneClassSVM is any function from feature vectors to          *)
(* {inlier, outlier}; AffinityPropagation returns the feature vectors of   *)
(* any set of rows of its input (none when it does not converge);          *)
(* predict_proba is any function from feature vectors to probability       *)
(* rows with one column per class seen in fit; predict refuses an array    *)
(* with zero rows.  Probabilities are integers in tenths.                  *)
(***************************************************************************)
EXTENDS Integers, Sequences, FiniteSets, TLC

\* ------------------------------------------------------------------ bounds
DatasetSize == 3
MaxAnnotations == 2
MaxIter == 1
MaxBatch == 2
MaxRows == 3
MaxLabelled == 3

Feats == {1, 2}
Labels == {"a", "b"}

VARIABLES
    df_main,            \* <<[X, y], ...>> the dataset, row i at position i-1
    init_indices,       \* the indices given to initialise_data
    labelled_X_new, labelled_y_new,
    unlabelled_X_new, unlabelled_y_new,
    labelled_idx,       \* dataset row of each labelled row   (DataFrame index)
    unlabelled_idx,     \* dataset row of each unlabelled row (DataFrame index)
    unique_labels,      \* set by preprocessing
    training_type,
    data,               \* the Iteration Record table
    fits,               \* number of clf.fit calls completed
    pc, err,
    op,                 \* the operation that acted last
    iter_count, step1_max_iter, step1_max_samples, exit_reason,
    masks, novel_mask, representative_indices,
    iter, num_samples, step2_max_iter, step2_max_samples, n, sampling_type,
    probalities, indices

vars == <<df_main, init_indices, labelled_X_new, labelled_y_new,
          unlabelled_X_new, unlabelled_y_new, labelled_idx, unlabelled_idx,
          unique_labels, training_type, data, fits, pc, err, op,
          iter_count, step1_max_iter, step1_max_samples, exit_reason,
          masks, novel_mask, representative_indices,
          iter, num_samples, step2_max_iter, step2_max_samples, n,
          sampling_type, probalities, indices>>

poolVars == <<labelled_X_new, labelled_y_new, unlabelled_X_new,
              unlabelled_y_new, labelled_idx, unlabelled_idx>>
step1Vars == <<iter_count, step1_max_iter, step1_max_samples, exit_reason,
               masks, novel_mask, representative_indices>>
step2Vars == <<iter, num_samples, step2_max_iter, step2_max_samples, n,
               sampling_type, probalities>>

\* ----------------------------------------------------------- numpy helpers
Range(s) == {s[k] : k \in DOMAIN s}

SeqsUpTo(S, m) == UNION {[1..k -> S] : k \in 0..m}

Unique(s) == \A j, k \in DOMAIN s : j # k => s[j] # s[k]

\* a[i] for one integer i: negative i counts from the end
NormIndex(i, len) == IF i < 0 THEN i + len ELSE i

InBounds(i, len) == -len <= i /\ i < len

RECURSIVE SortedSeq(_)
SortedSeq(S) ==
    IF S = {} THEN <<>>
    ELSE LET m == CHOOSE x \in S : \A z \in S : x <= z
         IN  <<m>> \o SortedSeq(S \ {m})

\* the rows at the listed positions, in array order (boolean-mask indexing)
TakeMasked(a, ind) ==
    LET pos == SortedSeq({NormIndex(ind[k], Len(a)) : k \in DOMAIN ind})
    IN  [k \in DOMAIN pos |-> a[pos[k] + 1]]

\* a[ind] with a list of integers: the rows in the order of the list
Take(a, ind) == [k \in DOMAIN ind |-> a[NormIndex(ind[k], Len(a)) + 1]]

RECURSIVE DeleteFrom(_, _, _)
DeleteFrom(a, rm, k) ==
    IF k > Len(a) THEN <<>>
    ELSE IF (k - 1) \in rm THEN DeleteFrom(a, rm, k + 1)
    ELSE <<a[k]>> \o DeleteFrom(a, rm, k + 1)

\* np.delete(a, ind, axis=0): a boolean keep-mask, cleared at every index
NpDelete(a, ind) ==
    DeleteFrom(a, {NormIndex(ind[k], Len(a)) : k \in DOMAIN ind}, 1)

\* np.unique as a set
NpUnique(y) == Range(y)

\* ------------------------------------------------ initialise_data, preprocessing
DatasetsOf(size) == [1..size -> [X : Feats, y : Labels]]

\* indices: the caller's list, len(indices) == annotations is asserted;
\* preprocessing needs at least one unlabelled row to fit the scaler
InitIndexLists ==
    {s \in SeqsUpTo(0..(DatasetSize - 1), MaxAnnotations) :
        Len(s) >= 1 /\ Cardinality(Range(s)) < DatasetSize}

\* df.drop(indices): the rows whose index label is not in indices
RECURSIVE DropRows(_, _, _)
DropRows(len, rm, k) ==
    IF k >= len THEN <<>>
    ELSE IF k \in rm THEN DropRows(len, rm, k + 1)
    ELSE <<k>> \o DropRows(len, rm, k + 1)

InitPools(ds, ind) ==
    LET lab == ind
        unl == DropRows(Len(ds), Range(ind), 0)
    IN  /\ df_main = ds
        /\ init_indices = ind
        /\ labelled_idx = lab
        /\ unlabelled_idx = unl
        /\ labelled_X_new = [k \in DOMAIN lab |-> ds[lab[k] + 1].X]
        /\ labelled_y_new = [k \in DOMAIN lab |-> ds[lab[k] + 1].y]
        /\ unlabelled_X_new = [k \in DOMAIN unl |-> ds[unl[k] + 1].X]
        /\ unlabelled_y_new = [k \in DOMAIN unl |-> ds[unl[k] + 1].y]
        /\ unique_labels = NpUnique([k \in DOMAIN lab |-> ds[lab[k] + 1].y])

InitRest ==
    /\ training_type = "Random"
    /\ data = <<>>
    /\ fits = 0
    /\ pc = "Preprocessed"
    /\ err = "none"
    /\ op = "preprocessing"
    /\ iter_count = 0 /\ step1_max_iter = 0 /\ step1_max_samples = 0
    /\ exit_reason = "none"
    /\ masks = <<>> /\ novel_mask = <<>> /\ representative_indices = <<>>
    /\ iter = 0 /\ num_samples = 0 /\ step2_max_iter = 0
    /\ step2_max_samples = 0 /\ n = 0 /\ sampling_type = "none"
    /\ probalities = <<>> /\ indices = <<>>

Init ==
    /\ \E ds \in DatasetsOf(DatasetSize) : \E ind \in InitIndexLists : InitPools(ds, ind)
    /\ InitRest

\* --------------------------------------------------------- oracle_annotations
\* line 132: fancy indexing raises IndexError on an index out of bounds
OracleRaises(ind) ==
    \E k \in DOMAIN ind : ~InBounds(ind[k], Len(unlabelled_X_new))

\* the batch appended by two calls in a row, the second on the stale indices
OracleAnnotationsTwice(ind) ==
    /\ ~OracleRaises(ind)
    /\ labelled_X_new' = labelled_X_new \o Take(unlabelled_X_new, ind)
                                        \o Take(unlabelled_X_new, ind)
    /\ labelled_y_new' = labelled_y_new \o Take(unlabelled_y_new, ind)
                                        \o Take(unlabelled_y_new, ind)
    /\ labelled_idx' = labelled_idx \o Take(unlabelled_idx, ind)
                                    \o Take(unlabelled_idx, ind)
    /\ unlabelled_X_new' = NpDelete(unlabelled_X_new, ind)
    /\ unlabelled_y_new' = NpDelete(unlabelled_y_new, ind)
    /\ unlabelled_idx' = NpDelete(unlabelled_idx, ind)

oracle_annotations(ind) ==
    /\ ~OracleRaises(ind)
    /\ labelled_X_new' = labelled_X_new \o Take(unlabelled_X_new, ind)
    /\ labelled_y_new' = labelled_y_new \o Take(unlabelled_y_new, ind)
    /\ labelled_idx' = labelled_idx \o Take(unlabelled_idx, ind)
    /\ unlabelled_X_new' = NpDelete(unlabelled_X_new, ind)
    /\ unlabelled_y_new' = NpDelete(unlabelled_y_new, ind)
    /\ unlabelled_idx' = NpDelete(unlabelled_idx, ind)

\* ------------------------------------------- run_classification, train_model
\* clf.predict(X_test) refuses an array with zero rows; the bare except then
\* calls clf.predict_classes, which the sklearn classifiers do not have
PredictRaises(uX) == Len(uX) = 0

\* the row run_classification concatenates to self.data (the metric columns
\* come from the external classifier; damping and preference never change)
IterationRecord(lX, ly, tt) ==
    [annotations |-> Len(lX), Train_type |-> tt,
     Classes |-> Cardinality(NpUnique(ly))]

\* the table built anew at every call, holding the latest record only
RunClassificationReset(d, lX, ly, tt) == <<IterationRecord(lX, ly, tt)>>

\* the record appended by train_model and once more by its caller
RunClassificationTwice(d, lX, ly, tt) ==
    Append(Append(d, IterationRecord(lX, ly, tt)),
           IterationRecord(lX, ly, tt))

run_classification(d, lX, ly, tt) == Append(d, IterationRecord(lX, ly, tt))

\* ------------------------------------------------------ sampling strategies
NaN == [nan |-> TRUE, v |-> 0]

Num(x) == [nan |-> FALSE, v |-> x]

\* the order np.argsort sorts by: numbers ascending, nan after every number
SortsBefore(a, b) == IF a.nan THEN b.nan ELSE (b.nan \/ a.v <= b.v)

\* np.argsort(vals): a permutation of 0..len-1 that sorts vals; the order of
\* equal values is whatever the sort kind leaves
ArgSorts(vals) ==
    {p \in [1..Len(vals) -> 0..(Len(vals) - 1)] :
        /\ Unique(p)
        /\ \A k \in 1..(Len(vals) - 1) :
              SortsBefore(vals[p[k] + 1], vals[p[k + 1] + 1])}

\* s[:m] for m >= 0
SliceTo(s, m) == SubSeq(s, 1, IF m < Len(s) THEN m ELSE Len(s))

\* s[-m:] for m >= 0: -0 is 0, so s[-0:] is the whole of s
SliceLast(s, m) ==
    IF m = 0 \/ m >= Len(s) THEN s ELSE SubSeq(s, Len(s) - m + 1, Len(s))

NSamples(prob) == Len(prob)

NClasses(prob) == Len(prob[1])

RowMax(row) == CHOOSE x \in Range(row) : \A z \in Range(row) : z <= x

\* the lowest probability of the row: column 0 of the argsort
RowLowest(row) == CHOOSE x \in Range(row) : \A z \in Range(row) : x <= z

\* probalities[i, np.argsort(probalities, axis=1)[i, -2]]
RowSecondMax(row) ==
    LET p == CHOOSE q \in ArgSorts([k \in DOMAIN row |-> Num(row[k])]) : TRUE
    IN  row[p[Len(row) - 1] + 1]

BvSBDiff(prob) ==
    [i \in DOMAIN prob |-> Num(RowMax(prob[i]) - RowSecondMax(prob[i]))]

Returned(ind) == [err |-> "none", indices |-> ind]

Raised(e) == [err |-> e, indices |-> <<>>]

\* the outcomes of BvSB_Sampling(probalities, n); [:, -2] is out of bounds
\* for axis 1 when there is one class
BvSB_Sampling(prob, nn) ==
    IF NClasses(prob) < 2 THEN {Raised("IndexError")}
    ELSE {Returned(SliceTo(p, nn)) : p \in ArgSorts(BvSBDiff(prob))}

\* p * log(p) for p = 1/10 .. 10/10, in 1/10000
PLogP == <<-2303, -3219, -3612, -3665, -3466, -3065, -2497, -1785, -948, 0>>

RECURSIVE SumPLogP(_, _)
SumPLogP(row, k) ==
    IF k > Len(row) THEN 0 ELSE PLogP[row[k]] + SumPLogP(row, k + 1)

\* -sum(k_) with k_ = [p * np.log(p) ...]: 0 * log(0) is 0 * -inf, nan
RowEntropy(row) ==
    IF \E k \in DOMAIN row : row[k] = 0 THEN NaN
    ELSE Num(0 - SumPLogP(row, 1))

\* the outcomes of Entropy_Sampling(probalities, n)
Entropy_Sampling(prob, nn) ==
    {Returned(SliceLast(p, nn)) :
        p \in ArgSorts([i \in DOMAIN prob |-> RowEntropy(prob[i])])}

\* the outcomes of Random_sampling(n): np.random.choice(len, n, replace=False)
Random_sampling(len, nn) ==
    IF nn > len THEN {Raised("ValueError")}
    ELSE {Returned(p) : p \in {q \in [1..nn -> 0..(len - 1)] : Unique(q)}}

SamplingTypes == {"BvSB", "Random", "Entropy"}

\* the if / elif chain of step2
Select(st, prob, len, nn) ==
    IF st = "BvSB" THEN BvSB_Sampling(prob, nn)
    ELSE IF st = "Random" THEN Random_sampling(len, nn)
    ELSE Entropy_Sampling(prob, nn)

\* probability rows a classifier fitted on k classes can return, in tenths
ProbRows(k) ==
    IF k = 1 THEN {<<10>>}
    ELSE IF k = 2 THEN {<<9, 1>>, <<5, 5>>, <<10, 0>>}
    ELSE {<<5, 5, 0>>, <<6, 3, 1>>, <<4, 3, 3>>, <<2, 4, 4>>, <<1, 1, 8>>}

\* clf.predict_proba(X): one row per row of X, a function of the row's vector
predict_proba(f, uX) == [i \in DOMAIN uX |-> f[uX[i]]]

\* --------------------------------------------------------------------- step1
\* np.any(masks, axis=0)
NpAny(ms, len) == [i \in 1..len |-> \E l \in DOMAIN ms : ms[l][i]]

\* np.all(masks, axis=0)
NpAll(ms, len) == [i \in 1..len |-> \A l \in DOMAIN ms : ms[l][i]]

\* self.unlabelled_X_new[novel_mask], as the positions of its rows
NovelPositions(mask) == {i - 1 : i \in {k \in DOMAIN mask : mask[k]}}

\* np.where((self.unlabelled_X_new == sample).all(axis=1))[0][0]
FirstMatch(uX, sample) ==
    (CHOOSE i \in DOMAIN uX :
        uX[i] = sample /\ \A j \in 1..(i - 1) : uX[j] # sample) - 1

\* lines 242-243: the first train_model, then training_type = 'AP'
step1_begin(mi, ms) ==
    /\ pc = "Preprocessed"
    /\ op' = "step1"
    /\ step1_max_iter' = mi
    /\ step1_max_samples' = ms
    /\ iter_count' = 0
    /\ fits' = fits + 1
    /\ IF PredictRaises(unlabelled_X_new)
       THEN /\ pc' = "Failed" /\ err' = "AttributeError"
            /\ UNCHANGED <<data, training_type>>
       ELSE /\ data' = run_classification(data, labelled_X_new,
                                          labelled_y_new, training_type)
            /\ training_type' = "AP"
            /\ pc' = "Phase1Active"
            /\ UNCHANGED err
    /\ UNCHANGED <<df_main, init_indices, poolVars, unique_labels,
                   exit_reason, masks, novel_mask, representative_indices,
                   step2Vars, indices>>

\* the while condition, and the break of line 271 not taken
Step1Continues ==
    /\ iter_count < step1_max_iter
    /\ Len(labelled_X_new) < step1_max_samples
    /\ exit_reason = "none"

\* lines 246-282: one pass of the while loop
step1_iteration ==
    /\ pc = "Phase1Active"
    /\ Step1Continues
    /\ op' = "step1"
    /\ iter_count' = iter_count + 1
    /\ \E svm \in [unique_labels -> [Feats -> BOOLEAN]] :
         LET ms == [l \in unique_labels |->
                      [i \in DOMAIN unlabelled_X_new |->
                          svm[l][unlabelled_X_new[i]]]]
             nm == NpAll(ms, Len(unlabelled_X_new))
         IN  /\ masks' = ms
             /\ novel_mask' = nm
             /\ IF NovelPositions(nm) = {}
                THEN /\ exit_reason' = "no_novelty"
                     /\ UNCHANGED <<poolVars, representative_indices, data,
                                    fits, pc, err>>
                ELSE \E centers \in SUBSET NovelPositions(nm) :
                       LET representative_X ==
                               Take(unlabelled_X_new, SortedSeq(centers))
                           ri == [k \in DOMAIN representative_X |->
                                    FirstMatch(unlabelled_X_new,
                                               representative_X[k])]
                       IN  /\ representative_indices' = ri
                           /\ oracle_annotations(ri)
                           /\ fits' = fits + 1
                           /\ IF PredictRaises(unlabelled_X_new')
                              THEN /\ pc' = "Failed"
                                   /\ err' = "AttributeError"
                                   /\ UNCHANGED data
                              ELSE /\ data' = run_classification(data,
                                          labelled_X_new', labelled_y_new',
                                          training_type)
                                   /\ UNCHANGED <<pc, err>>
                           /\ UNCHANGED exit_reason
    /\ UNCHANGED <<df_main, init_indices, unique_labels, training_type,
                   step1_max_iter, step1_max_samples, step2Vars, indices>>

\* step1 returns: the while condition is false or the loop was left by the
\* break; the locals of the loop body go out of scope
step1_exit ==
    /\ pc = "Phase1Active"
    /\ ~Step1Continues
    /\ op' = "step1"
    /\ exit_reason' = IF exit_reason = "none" THEN "cap" ELSE exit_reason
    /\ pc' = "Phase1Done"
    /\ masks' = <<>> /\ novel_mask' = <<>> /\ representative_indices' = <<>>
    /\ UNCHANGED <<df_main, init_indices, poolVars, unique_labels,
                   training_type, data, fits, err, iter_count,
                   step1_max_iter, step1_max_samples, step2Vars, indices>>

\* --------------------------------------------------------------------- step2
\* lines 292-294
step2_begin(mi, nn, ms, st) ==
    /\ pc = "Phase1Done"
    /\ op' = "step2"
    /\ iter' = 0
    /\ num_samples' = Len(labelled_X_new)
    /\ training_type' = "BvSB"
    /\ step2_max_iter' = mi
    /\ n' = nn
    /\ step2_max_samples' = ms
    /\ sampling_type' = st
    /\ pc' = "Phase2Active"
    /\ UNCHANGED <<df_main, init_indices, poolVars, unique_labels, data,
                   fits, err, step1Vars, probalities, indices>>

Step2Continues == iter <= step2_max_iter /\ num_samples < step2_max_samples

\* train_model followed by the caller's own run_classification
TrainAndClassify(d, lX, ly, tt) ==
    run_classification(run_classification(d, lX, ly, tt), lX, ly, tt)

\* lines 296-320: one pass of the while loop
step2_iteration ==
    /\ pc = "Phase2Active"
    /\ Step2Continues
    /\ op' = "step2"
    /\ fits' = fits + 1
    /\ IF PredictRaises(unlabelled_X_new)
       THEN /\ pc' = "Failed" /\ err' = "AttributeError"
            /\ UNCHANGED <<data, poolVars, probalities, indices, iter,
                           num_samples>>
       ELSE /\ data' = TrainAndClassify(data, labelled_X_new,
                                        labelled_y_new, training_type)
            /\ \E f \in [Feats ->
                          ProbRows(Cardinality(NpUnique(labelled_y_new)))] :
                 /\ probalities' = predict_proba(f, unlabelled_X_new)
                 /\ \E r \in Select(sampling_type, probalities',
                                    Len(unlabelled_X_new), n) :
                      IF r.err # "none"
                      THEN /\ pc' = "Failed" /\ err' = r.err
                           /\ UNCHANGED <<poolVars, indices, iter,
                                          num_samples>>
                      ELSE /\ indices' = r.indices
                           /\ oracle_annotations(r.indices)
                           /\ num_samples' = Len(labelled_X_new')
                           /\ iter' = iter + 1
                           /\ UNCHANGED <<pc, err>>
    /\ UNCHANGED <<df_main, init_indices, unique_labels, training_type,
                   step1Vars, step2_max_iter, step2_max_samples, n,
                   sampling_type>>

\* lines 322-328: the final train_model and run_classification
step2_final ==
    /\ pc = "Phase2Active"
    /\ ~Step2Continues
    /\ op' = "step2"
    /\ fits' = fits + 1
    /\ IF PredictRaises(unlabelled_X_new)
       THEN /\ pc' = "Failed" /\ err' = "AttributeError" /\ UNCHANGED data
       ELSE /\ data' = TrainAndClassify(data, labelled_X_new,
                                        labelled_y_new, training_type)
            /\ pc' = "Finalized"
            /\ UNCHANGED err
    /\ probalities' = <<>> /\ indices' = <<>>
    /\ UNCHANGED <<df_main, init_indices, poolVars, unique_labels,
                   training_type, step1Vars, iter, num_samples,
                   step2_max_iter, step2_max_samples, n, sampling_type>>

\* the run of __main__: step1 then step2, each with its arguments
Next ==
    \/ \E mi \in 0..MaxIter : \E ms \in 1..MaxLabelled : step1_begin(mi, ms)
    \/ step1_iteration
    \/ step1_exit
    \/ \E mi \in 0..MaxIter : \E nn \in 0..MaxBatch :
         \E ms \in 1..MaxLabelled : \E st \in SamplingTypes :
            step2_begin(mi, nn, ms, st)
    \/ step2_iteration
    \/ step2_final

Spec == Init /\ [][Next]_vars

\* the run up to the return of step1
NextStep1 ==
    \/ \E mi \in 0..MaxIter : \E ms \in 1..MaxLabelled : step1_begin(mi, ms)
    \/ step1_iteration
    \/ step1_exit

SpecStep1 == Init /\ [][NextStep1]_vars

\* the run up to the return of step1, with one more pass of the loop allowed:
\* a label annotated in one pass is in the labelled pool at the next
NextStep1Long ==
    \/ \E mi \in 0..(MaxIter + 1) : \E ms \in 1..MaxLabelled :
          step1_begin(mi, ms)
    \/ step1_iteration
    \/ step1_exit

SpecStep1Long == Init /\ [][NextStep1Long]_vars

\* ------------------------------------ oracle_annotations called on its own
\* index lists a caller can pass for an array of len rows: positions, -1
\* (the last row), and one index beyond each end
IndexValues(len) == {-(len + 1), -1} \cup 0..len

InitPool ==
    /\ \E ds \in DatasetsOf(MaxRows + 1) : InitPools(ds, <<0>>)
    /\ InitRest

oracle_call(ind) ==
    /\ op = "preprocessing"
    /\ op' = "oracle_annotations"
    /\ indices' = ind
    /\ IF OracleRaises(ind)
       THEN /\ err' = "IndexError"
            /\ UNCHANGED poolVars
       ELSE /\ oracle_annotations(ind)
            /\ UNCHANGED err
    /\ UNCHANGED <<df_main, init_indices, unique_labels, training_type,
                   data, fits, pc, step1Vars, step2Vars>>

NextPool ==
    \E ind \in SeqsUpTo(IndexValues(Len(unlabelled_X_new)), MaxBatch) :
        oracle_call(ind)

SpecPool == InitPool /\ [][NextPool]_vars

\* ------------------------------------ the sampling strategies on their own
\* probability rows of the matrices the strategies are applied to
SamplingRows(k) ==
    IF k = 2 THEN ProbRows(2) \cup {<<6, 4>>, <<3, 7>>, <<0, 10>>}
    ELSE ProbRows(k)

InitSampling ==
    /\ \E m \in 1..MaxRows :
         /\ InitPools([i \in 1..(m + 1) |-> [X |-> 1, y |-> "a"]], <<0>>)
         /\ \E k \in 1..3 : probalities \in [1..m -> SamplingRows(k)]
    /\ training_type = "Random"
    /\ data = <<>>
    /\ fits = 0
    /\ pc = "Preprocessed"
    /\ err = "none"
    /\ op = "preprocessing"
    /\ iter_count = 0 /\ step1_max_iter = 0 /\ step1_max_samples = 0
    /\ exit_reason = "none"
    /\ masks = <<>> /\ novel_mask = <<>> /\ representative_indices = <<>>
    /\ iter = 0 /\ num_samples = 0 /\ step2_max_iter = 0
    /\ step2_max_samples = 0 /\ n = 0 /\ sampling_type = "none"
    /\ indices = <<>>

\* one strategy applied to the matrix, its outcome kept in indices and err
SamplingCall(name, outcomes, nn) ==
    /\ op = "preprocessing"
    /\ op' = name
    /\ n' = nn
    /\ \E r \in outcomes : indices' = r.indices /\ err' = r.err
    /\ UNCHANGED <<df_main, init_indices, poolVars, unique_labels,
                   training_type, data, fits, pc, step1Vars, iter,
                   num_samples, step2_max_iter, step2_max_samples,
                   sampling_type, probalities>>

BvSB_call(nn) ==
    SamplingCall("BvSB_Sampling", BvSB_Sampling(probalities, nn), nn)

Entropy_call(nn) ==
    SamplingCall("Entropy_Sampling", Entropy_Sampling(probalities, nn), nn)

Random_call(nn) ==
    SamplingCall("Random_sampling",
                 Random_sampling(Len(unlabelled_X_new), nn), nn)

NextSampling ==
    \/ \E nn \in 0..(MaxRows + 1) : BvSB_call(nn)
    \/ \E nn \in 0..(MaxRows + 1) : Entropy_call(nn)
    \/ \E nn \in 0..(MaxRows + 1) : Random_call(nn)

SpecSampling == InitSampling /\ [][NextSampling]_vars

\* ==================================================================== claims
SamplingOps == {"BvSB_Sampling", "Entropy_Sampling", "Random_sampling"}

InRange(ind, len) == \A k \in DOMAIN ind : 0 <= ind[k] /\ ind[k] < len

Rows == 0..(Len(df_main) - 1)

\* C1: in every state the labelled and the unlabelled rows number as many as
\* the dataset's rows, and every dataset row is in exactly one pool, once.
C1_PoolPartition ==
    /\ Len(labelled_X_new) + Len(unlabelled_X_new) = Len(df_main)
    /\ Range(labelled_idx) \cap Range(unlabelled_idx) = {}
    /\ Range(labelled_idx) \cup Range(unlabelled_idx) = Rows
    /\ Unique(labelled_idx) /\ Unique(unlabelled_idx)

\* the number of indices of ind below position p
Below(ind, p) == Cardinality({q \in Range(ind) : q < p})

AppendedInOrder(old, new, src, ind) ==
    /\ Len(new) = Len(old) + Len(ind)
    /\ \A k \in DOMAIN old : new[k] = old[k]
    /\ \A k \in DOMAIN ind : new[Len(old) + k] = src[ind[k] + 1]

RemovedInOrder(old, new, ind) ==
    /\ Len(new) = Len(old) - Len(ind)
    /\ \A p \in 0..(Len(old) - 1) :
          p \notin Range(ind) => new[p - Below(ind, p) + 1] = old[p + 1]

\* C2: a call of oracle_annotations with unique, in-range indices appends
\* the rows at those positions to the labelled arrays in the order given,
\* after the rows already there, and removes exactly those positions from the
\* unlabelled arrays, the remaining rows keeping their order.
C2_AnnotateMoves ==
    [][(/\ op' = "oracle_annotations"
        /\ Unique(indices')
        /\ InRange(indices', Len(unlabelled_X_new)))
       => /\ AppendedInOrder(labelled_X_new, labelled_X_new',
                             unlabelled_X_new, indices')
          /\ AppendedInOrder(labelled_y_new, labelled_y_new',
                             unlabelled_y_new, indices')
          /\ AppendedInOrder(labelled_idx, labelled_idx',
                             unlabelled_idx, indices')
          /\ RemovedInOrder(unlabelled_X_new, unlabelled_X_new', indices')
          /\ RemovedInOrder(unlabelled_y_new, unlabelled_y_new', indices')
          /\ RemovedInOrder(unlabelled_idx, unlabelled_idx', indices')]_vars

\* a call moved two rows, given in descending order, and left rows behind
C2_Witness ==
    /\ op = "oracle_annotations"
    /\ err = "none"
    /\ Len(indices) = 2
    /\ InRange(indices, Len(df_main) - 1)
    /\ indices[1] > indices[2]
    /\ labelled_idx = <<0, indices[1] + 1, indices[2] + 1>>
    /\ Len(unlabelled_idx) >= 1

\* C3: a call of oracle_annotations with an out-of-range index or with
\* repeated indices fails with an index error and leaves all arrays as they
\* were.
C3_AllOrNothing ==
    [][(/\ op' = "oracle_annotations"
        /\ (OracleRaises(indices') \/ ~Unique(indices')))
       => (err' = "IndexError" /\ UNCHANGED poolVars)]_vars

\* C4: asked for n rows, 0 <= n <= pool size, each strategy returns exactly
\* n pairwise distinct indices within the unlabelled arrays.
C4_ExactlyN ==
    (/\ op \in SamplingOps
     /\ n <= Len(unlabelled_X_new)
     /\ NClasses(probalities) >= 2)
    => /\ err = "none"
       /\ Len(indices) = n
       /\ Unique(indices)
       /\ InRange(indices, Len(unlabelled_X_new))

\* the margin of a row: its highest probability minus the highest among the
\* other columns
Margin(row) ==
    LET top == CHOOSE k \in DOMAIN row : \A j \in DOMAIN row : row[j] <= row[k]
        others == {row[j] : j \in DOMAIN row \ {top}}
    IN  row[top] - (CHOOSE x \in others : \A z \in others : z <= x)

NotSelected == (0..(NSamples(probalities) - 1)) \ Range(indices)

\* C5: BvSB_Sampling on a matrix of at least 2 classes returns n distinct
\* rows (all rows when there are fewer than n), and the margin of every row
\* it returns is at most the margin of every row it leaves.
C5_BvSBSmallestMargin ==
    (op = "BvSB_Sampling" /\ NClasses(probalities) >= 2)
    => /\ err = "none"
       /\ Unique(indices)
       /\ InRange(indices, NSamples(probalities))
       /\ Len(indices) =
            (IF n < NSamples(probalities) THEN n ELSE NSamples(probalities))
       /\ \A s \in Range(indices) : \A t \in NotSelected :
             Margin(probalities[s + 1]) <= Margin(probalities[t + 1])

\* the matrix of the specification's example: rows 2 and 3 are returned
C5_Witness ==
    /\ op = "BvSB_Sampling"
    /\ probalities = <<(<<9, 1>>), (<<5, 5>>), (<<6, 4>>)>>
    /\ n = 2
    /\ Range(indices) = {1, 2}

\* Shannon entropy of a row, in 1/10000, with 0 * log(0) = 0
Shannon(row) ==
    LET RECURSIVE Sum(_)
        Sum(k) == IF k > Len(row) THEN 0
                  ELSE (IF row[k] = 0 THEN 0 ELSE PLogP[row[k]]) + Sum(k + 1)
    IN  0 - Sum(1)

\* C6: the entropy of every row Entropy_Sampling returns is at least the
\* entropy of every row it leaves.
C6_EntropyLargest ==
    op = "Entropy_Sampling"
    => \A s \in Range(indices) : \A t \in NotSelected :
          Shannon(probalities[s + 1]) >= Shannon(probalities[t + 1])

\* C7: asked for more rows than the unlabelled pool holds, every strategy
\* fails instead of returning a batch.
C7_FailsWhenShort ==
    (op \in SamplingOps /\ n > Len(unlabelled_X_new)) => err # "none"

\* a step1 iteration has run and step1 has not returned
Step1Iterated ==
    op = "step1" /\ iter_count >= 1 /\ pc \in {"Phase1Active", "Failed"}

\* C8: after a step1 iteration, an unlabelled point is in the novel set iff
\* every per-label detector flagged it, and every point the iteration
\* annotated was flagged by every detector.
C8_NovelIffAllFlag ==
    Step1Iterated
    => /\ \A i \in DOMAIN novel_mask :
             novel_mask[i] <=> \A l \in DOMAIN masks : masks[l][i]
       /\ exit_reason = "none"
            => \A k \in DOMAIN representative_indices :
                  \A l \in DOMAIN masks :
                     masks[l][representative_indices[k] + 1]

\* two detectors disagree on a point: it is not novel
C8_Witness ==
    /\ Step1Iterated
    /\ \E i \in DOMAIN novel_mask : \E l1, l2 \in DOMAIN masks :
          masks[l1][i] /\ ~masks[l2][i] /\ ~novel_mask[i]

PoolsAsInitialised ==
    /\ labelled_idx = init_indices
    /\ unlabelled_idx = DropRows(Len(df_main), Range(init_indices), 0)
    /\ labelled_X_new = [k \in DOMAIN labelled_idx |->
                            df_main[labelled_idx[k] + 1].X]
    /\ labelled_y_new = [k \in DOMAIN labelled_idx |->
                            df_main[labelled_idx[k] + 1].y]
    /\ unlabelled_X_new = [k \in DOMAIN unlabelled_idx |->
                              df_main[unlabelled_idx[k] + 1].X]
    /\ unlabelled_y_new = [k \in DOMAIN unlabelled_idx |->
                              df_main[unlabelled_idx[k] + 1].y]

\* step1 found no novel point in its first iteration
NoNoveltyAtFirst ==
    /\ pc \in {"Phase1Active", "Phase1Done"}
    /\ exit_reason = "no_novelty"
    /\ iter_count = 1

\* C9: when step1 finds no novel point in its first iteration, one
\* classifier fit has been made, one Iteration Record appended, no batch
\* was passed to oracle_annotations and both pools are as preprocessing
\* left them.
C9_NoNoveltyOneRound ==
    NoNoveltyAtFirst
    => /\ fits = 1
       /\ Len(data) = 1
       /\ representative_indices = <<>>
       /\ PoolsAsInitialised

\* step1 has returned after a first iteration without novelty
C9_Witness == NoNoveltyAtFirst /\ pc = "Phase1Done"

\* C10: with the same cap max_samples in step1 and step2, an initial
\* labelled size below it and a batch size of at least one row, the labelled
\* size never exceeds max_samples.
C10_NeverAboveCap ==
    (/\ pc \in {"Phase2Active", "Finalized", "Failed"}
     /\ op = "step2"
     /\ n >= 1
     /\ step1_max_samples = step2_max_samples
     /\ Len(init_indices) < step2_max_samples)
    => Len(labelled_X_new) <= step2_max_samples

\* C11: while the run has not been aborted, the Iteration Record table has
\* as many rows as classifier fits have been completed.
C11_OneRowPerFit == pc # "Failed" => Len(data) = fits

\* C13: step2 makes at most max_iter select-and-annotate rounds.
C13_AtMostMaxIterRounds ==
    (op = "step2" /\ pc \in {"Phase2Active", "Finalized"})
    => iter <= step2_max_iter

\* C14: a failure raised inside step1 does not abort the run.
C14_Phase1FailureFallsThrough == ~(pc = "Failed" /\ op = "step1")

\* C15: step2 is not aborted when the unlabelled pool runs out: the run
\* goes on to Finalized.
C15_FinalizesWhenPoolRunsOut ==
    ~(pc = "Failed" /\ op = "step2" /\ Len(unlabelled_X_new) = 0)

\* C16: no step of the run (training round, selection, annotation) is taken
\* from a state where the pool sizes do not sum to the dataset size.
C16_NoStepWhenCorrupt ==
    [][Len(labelled_X_new) + Len(unlabelled_X_new) = Len(df_main)]_vars

\* C18: in every step1 iteration one detector is fitted per distinct label
\* of the labelled pool as it is when the iteration starts.
C18_DetectorPerLabelPresent ==
    [][(pc = "Phase1Active" /\ iter_count' = iter_count + 1)
       => DOMAIN masks' = NpUnique(labelled_y_new)]_vars

\* the rows a step appended to the Iteration Record table
NewRows == (Len(data) + 1)..Len(data')

\* C19: every record appended during step2 names the sampling_type passed
\* to step2, and every record appended by a pass of the step1 loop names the
\* novelty / clustering strategy.
C19_RecordNamesStrategy ==
    [][/\ op' = "step2"
          => \A k \in NewRows : data'[k].Train_type = sampling_type'
       /\ (pc = "Phase1Active" /\ op' = "step1")
          => \A k \in NewRows : data'[k].Train_type = "AP"]_vars

\* C20: the batch a step1 iteration passes to oracle_annotations consists of
\* pairwise distinct, in-range indices of novel rows.
C20_Step1BatchDistinct ==
    (Step1Iterated /\ exit_reason = "none")
    => /\ Unique(representative_indices)
       /\ InRange(representative_indices, Len(novel_mask))
       /\ \A k \in DOMAIN representative_indices :
             novel_mask[representative_indices[k] + 1]

\* C12: every step leaves the rows of the Iteration Record table in place and
\* adds rows only at the end; a row holds the size of the labelled pool at the
\* moment it was appended (a step2 round records before it annotates, a step1
\* round after), and the sizes never decrease from one row to the next.
C12_AppendOnly ==
    [][/\ Len(data') >= Len(data)
       /\ SubSeq(data', 1, Len(data)) = data
       /\ \A k \in NewRows :
             data'[k].annotations =
                IF pc = "Phase2Active" THEN Len(labelled_X_new)
                                       ELSE Len(labelled_X_new')
       /\ \A k \in 1..(Len(data') - 1) :
             data'[k].annotations <= data'[k + 1].annotations]_vars

\* rows of step1 and of step2 in one table, the labelled size having grown
C12_Witness ==
    /\ op = "step2"
    /\ iter_count >= 1
    /\ Len(data) >= 4
    /\ data[1].annotations < data[Len(data)].annotations

\* the rows at the positions of ind are gone from new, each once, and the
\* other rows of old are in new in their order
RemovedOnce(old, new, ind) ==
    /\ Len(new) = Len(old) - Cardinality(Range(ind))
    /\ \A p \in 0..(Len(old) - 1) :
          p \notin Range(ind) => new[p - Below(ind, p) + 1] = old[p + 1]

\* the pools after exactly one annotation of the batch
AnnotatedOnce(batch) ==
    /\ AppendedInOrder(labelled_X_new, labelled_X_new',
                       unlabelled_X_new, batch)
    /\ AppendedInOrder(labelled_y_new, labelled_y_new',
                       unlabelled_y_new, batch)
    /\ AppendedInOrder(labelled_idx, labelled_idx', unlabelled_idx, batch)
    /\ RemovedOnce(unlabelled_X_new, unlabelled_X_new', batch)
    /\ RemovedOnce(unlabelled_y_new, unlabelled_y_new', batch)
    /\ RemovedOnce(unlabelled_idx, unlabelled_idx', batch)

\* a pass of the step1 loop that selected a batch
Step1Selects ==
    pc = "Phase1Active" /\ iter_count' = iter_count + 1 /\ exit_reason' = "none"

\* a pass of the step2 loop that selected a batch
Step2Selects == pc = "Phase2Active" /\ iter' = iter + 1

\* C17: a step1 or step2 iteration that selects a batch changes the pools as
\* one call of oracle_annotations on that batch does, and every other step of
\* the run (training, classification, sampling that fails, entering and
\* leaving a phase) leaves the labelled and unlabelled arrays unchanged.
C17_PoolsChangeOnlyByAnnotation ==
    [][IF Step1Selects THEN AnnotatedOnce(representative_indices')
       ELSE IF Step2Selects THEN AnnotatedOnce(indices')
       ELSE UNCHANGED poolVars]_vars

\* step1 and then step2 have each annotated one row of a pool of two
C17_Witness ==
    /\ op = "step2" /\ pc = "Phase2Active"
    /\ iter_count = 1 /\ iter = 1
    /\ Len(init_indices) = 1
    /\ Len(indices) = 1
    /\ Len(labelled_X_new) = 3
    /\ Len(unlabelled_X_new) = 0

=============================================================================
